---- MODULE Spec2Model ----
(***************************************************************************)
(* Model of the extract-questions edge function                            *)
(* (supabase/functions/extract-questions/index.ts): the two-stage          *)
(* OCR-then-structure handler and the single-stage handler.                *)
(*                                                                         *)
(* A text is a sequence of one-character strings, so that the string       *)
(* operations of the code (toLowerCase, endsWith, replace, trim,           *)
(* JSON.parse) are computed character by character.                        *)
(***************************************************************************)
EXTENDS Integers, Sequences, FiniteSets, TLC

(***************************************************************************)
(* Bounds of the model.                                                    *)
(***************************************************************************)
\* the structuring model answers with arrays of 0..MaxQuestions questions
MaxQuestions == 2

(***************************************************************************)
(* Text helpers.                                                           *)
(***************************************************************************)
\* s.substring(i-1): the characters of s from position i (1-based) on
From(s, i) == IF i > Len(s) THEN <<>> ELSE SubSeq(s, i, Len(s))

\* does pattern p occur in s at position i
MatchAt(s, i, p) ==
    /\ i + Len(p) - 1 <= Len(s)
    /\ \A k \in 1..Len(p) : s[i + k - 1] = p[k]

UpperChars ==
    <<"A", "B", "C", "D", "E", "F", "G", "H", "I", "J", "K", "L",
      "M", "N", "O", "P", "Q", "R", "S", "T", "U", "V", "W", "X", "Y", "Z">>
LowerChars ==
    <<"a", "b", "c", "d", "e", "f", "g", "h", "i", "j", "k", "l",
      "m", "n", "o", "p", "q", "r", "s", "t", "u", "v", "w", "x", "y", "z">>

\* String.prototype.toLowerCase on one character of the model's alphabet
LowerChar(c) ==
    IF \E k \in 1..Len(UpperChars) : UpperChars[k] = c
    THEN LowerChars[CHOOSE k \in 1..Len(UpperChars) : UpperChars[k] = c]
    ELSE c

toLowerCase(s) == [k \in 1..Len(s) |-> LowerChar(s[k])]

endsWith(s, suffix) ==
    /\ Len(suffix) <= Len(s)
    /\ MatchAt(s, Len(s) - Len(suffix) + 1, suffix)

\* the white space String.prototype.trim removes and JSON.parse skips
IsWs(c) == c \in {" ", "\n", "\t", "\r"}

RECURSIVE SkipWs(_, _)
SkipWs(s, i) == IF i <= Len(s) /\ IsWs(s[i]) THEN SkipWs(s, i + 1) ELSE i

RECURSIVE SkipWsBack(_, _)
SkipWsBack(s, j) == IF j >= 1 /\ IsWs(s[j]) THEN SkipWsBack(s, j - 1) ELSE j

trim(s) ==
    LET i == SkipWs(s, 1)
        j == SkipWsBack(s, Len(s))
    IN  IF i > j THEN <<>> ELSE SubSeq(s, i, j)

\* the positions from i on where p occurs in s
MatchesFrom(s, p, i) == {m \in i..Len(s) : MatchAt(s, m, p)}

Min(S) == CHOOSE x \in S : \A y \in S : x <= y

\* s.replace(/<p>\n?/g, ''): scanning from the left, every occurrence of p,
\* with the line feed that may follow it, is removed; the scan goes on
\* after the removed characters
RECURSIVE RemoveAllFrom(_, _, _)
RemoveAllFrom(s, p, i) ==
    IF MatchesFrom(s, p, i) = {} THEN From(s, i)
    ELSE LET m == Min(MatchesFrom(s, p, i))
             j == m + Len(p)
             k == IF j <= Len(s) /\ s[j] = "\n" THEN j + 1 ELSE j
         IN  SubSeq(s, i, m - 1) \o RemoveAllFrom(s, p, k)

\* the grave accent U+0060, which a TLA+ string cannot hold, as one character
Bq == "U+0060"

FenceJson == <<Bq, Bq, Bq, "j", "s", "o", "n">>
Fence == <<Bq, Bq, Bq>>

\* questionsText.replace(/```json\n?/g, '').replace(/```\n?/g, '').trim()
CleanedText(s) == trim(RemoveAllFrom(RemoveAllFrom(s, FenceJson, 1), Fence, 1))

(***************************************************************************)
(* JSON.parse on the fragment of JSON the model's texts use: arrays,       *)
(* objects, strings without escapes, non-negative integers, true, false    *)
(* and null.  A JSON value is a record of one shape for every type.        *)
(***************************************************************************)
JNull == [t |-> "null", n |-> 0, s |-> <<>>, keys |-> <<>>, items |-> <<>>]
JBool(b) == [t |-> "boolean", n |-> IF b THEN 1 ELSE 0, s |-> <<>>, keys |-> <<>>, items |-> <<>>]
JNumber(k) == [t |-> "number", n |-> k, s |-> <<>>, keys |-> <<>>, items |-> <<>>]
JString(str) == [t |-> "string", n |-> 0, s |-> str, keys |-> <<>>, items |-> <<>>]
JArray(vs) == [t |-> "array", n |-> 0, s |-> <<>>, keys |-> <<>>, items |-> vs]
JObject(ks, vs) == [t |-> "object", n |-> 0, s |-> <<>>, keys |-> ks, items |-> vs]

\* the result of a parsing step: the value and the position after it
PFail == [ok |-> FALSE, val |-> JNull, next |-> 0]
POk(v, i) == [ok |-> TRUE, val |-> v, next |-> i]

Digits == <<"0", "1", "2", "3", "4", "5", "6", "7", "8", "9">>
IsDigit(c) == \E k \in 1..Len(Digits) : Digits[k] = c
DigitVal(c) == (CHOOSE k \in 1..Len(Digits) : Digits[k] = c) - 1

RECURSIVE ParseDigits(_, _, _)
ParseDigits(s, i, acc) ==
    IF i <= Len(s) /\ IsDigit(s[i])
    THEN ParseDigits(s, i + 1, 10 * acc + DigitVal(s[i]))
    ELSE POk(JNumber(acc), i)

\* a number: 0, or a digit 1..9 followed by digits
ParseNumber(s, i) ==
    IF s[i] = "0"
    THEN IF i + 1 <= Len(s) /\ IsDigit(s[i + 1]) THEN PFail ELSE POk(JNumber(0), i + 1)
    ELSE ParseDigits(s, i, 0)

\* a string: the characters up to the closing quote; a raw control
\* character or a backslash escape is outside the fragment and rejected
RECURSIVE ParseChars(_, _, _)
ParseChars(s, i, acc) ==
    IF i > Len(s) THEN PFail
    ELSE IF s[i] = "\"" THEN POk(JString(acc), i + 1)
    ELSE IF s[i] \in {"\n", "\t", "\r", "\\"} THEN PFail
    ELSE ParseChars(s, i + 1, Append(acc, s[i]))

LitNull == <<"n", "u", "l", "l">>
LitTrue == <<"t", "r", "u", "e">>
LitFalse == <<"f", "a", "l", "s", "e">>

RECURSIVE ParseValue(_, _)
RECURSIVE ParseElements(_, _, _)
RECURSIVE ParseMembers(_, _, _, _)

\* the elements of an array after "[": value ("," value)* "]"
ParseElements(s, i, acc) ==
    LET r == ParseValue(s, i)
        j == SkipWs(s, r.next)
    IN  IF ~r.ok \/ j > Len(s) THEN PFail
        ELSE IF s[j] = "]" THEN POk(JArray(Append(acc, r.val)), j + 1)
        ELSE IF s[j] = "," THEN ParseElements(s, j + 1, Append(acc, r.val))
        ELSE PFail

\* the members of an object after "{": string ":" value ("," ...)* "}"
ParseMembers(s, i0, ks, vs) ==
    LET i == SkipWs(s, i0)
    IN  IF i > Len(s) \/ s[i] # "\"" THEN PFail
        ELSE LET k == ParseChars(s, i + 1, <<>>)
                 c == SkipWs(s, k.next)
             IN  IF ~k.ok \/ c > Len(s) \/ s[c] # ":" THEN PFail
                 ELSE LET r == ParseValue(s, c + 1)
                          j == SkipWs(s, r.next)
                      IN  IF ~r.ok \/ j > Len(s) THEN PFail
                          ELSE IF s[j] = "}"
                               THEN POk(JObject(Append(ks, k.val.s), Append(vs, r.val)), j + 1)
                          ELSE IF s[j] = ","
                               THEN ParseMembers(s, j + 1, Append(ks, k.val.s), Append(vs, r.val))
                          ELSE PFail

ParseValue(s, i0) ==
    LET i == SkipWs(s, i0)
    IN  IF i > Len(s) THEN PFail
        ELSE IF s[i] = "["
             THEN LET j == SkipWs(s, i + 1)
                  IN  IF j <= Len(s) /\ s[j] = "]"
                      THEN POk(JArray(<<>>), j + 1)
                      ELSE ParseElements(s, i + 1, <<>>)
        ELSE IF s[i] = "{"
             THEN LET j == SkipWs(s, i + 1)
                  IN  IF j <= Len(s) /\ s[j] = "}"
                      THEN POk(JObject(<<>>, <<>>), j + 1)
                      ELSE ParseMembers(s, i + 1, <<>>, <<>>)
        ELSE IF s[i] = "\"" THEN ParseChars(s, i + 1, <<>>)
        ELSE IF IsDigit(s[i]) THEN ParseNumber(s, i)
        ELSE IF MatchAt(s, i, LitNull) THEN POk(JNull, i + 4)
        ELSE IF MatchAt(s, i, LitTrue) THEN POk(JBool(TRUE), i + 4)
        ELSE IF MatchAt(s, i, LitFalse) THEN POk(JBool(FALSE), i + 5)
        ELSE PFail

\* JSON.parse(text): one value and nothing but white space after it;
\* .ok is FALSE where JSON.parse throws a SyntaxError
JSONparse(s) ==
    LET r == ParseValue(s, 1)
    IN  IF r.ok /\ SkipWs(s, r.next) > Len(s) THEN r ELSE PFail

\* variants of Array.isArray: one that rejects the empty array, one that is
\* a typeof check
IsNonEmptyArray(v) == v.t = "array" /\ v.items # <<>>
IsObjectType(v) == v.t \in {"array", "object", "null"}

\* Array.isArray(v)
IsArray(v) == v.t = "array"


(***************************************************************************)
(* Inputs: requests, the process environment, and the replies of the       *)
(* upstream services.                                                      *)
(***************************************************************************)
KeyPdf == <<"a", ".", "p", "d", "f">>
KeyPdfUpper == <<"a", ".", "P", "D", "F">>
KeyJpg == <<"a", ".", "j", "p", "g">>
KeyJpeg == <<"a", ".", "J", "P", "E", "G">>
KeyPng == <<"a", ".", "p", "n", "g">>
KeyNoExt == <<"p", "d", "f">>
KeyJpegLower == <<"a", ".", "j", "p", "e", "g">>
KeyJpgMixed == <<"a", ".", "J", "p", "g">>
KeyPdfThenPng == <<"b", ".", "p", "d", "f", ".", "p", "n", "g">>
KeyPdfx == <<"a", ".", "p", "d", "f", "x">>
KeyOnlyDotPdf == <<".", "p", "d", "F">>

\* the storage keys a request names; <<>> is the empty string
FilePaths ==
    {<<>>, KeyPdf, KeyPdfUpper, KeyJpg, KeyJpeg, KeyPng, KeyNoExt,
     KeyJpegLower, KeyJpgMixed, KeyPdfThenPng, KeyPdfx, KeyOnlyDotPdf}

\* what req.json() yields: an object with or without filePath, the JSON
\* value null, or a rejection for a body that is not JSON
Bodies ==
    [kind : {"object"}, hasPath : {TRUE}, filePath : FilePaths]
    \cup {[kind |-> "object", hasPath |-> FALSE, filePath |-> <<>>],
          [kind |-> "null", hasPath |-> FALSE, filePath |-> <<>>],
          [kind |-> "malformed", hasPath |-> FALSE, filePath |-> <<>>]}

Requests ==
    [method : {"POST"}, body : Bodies]
    \cup {[method |-> "OPTIONS", body |-> [kind |-> "malformed", hasPath |-> FALSE, filePath |-> <<>>]]}

\* Deno.env: is each credential set (to a non-empty string)
Envs == [LOVABLE_API_KEY : BOOLEAN, OCR_API_KEY : BOOLEAN]

\* the two handlers of index.ts
Variants == {"two-stage", "single-stage"}

\* HTTP statuses an upstream service answers with
Statuses == {200, 201, 400, 402, 429, 500, 503}

\* Response.ok
ResponseOk(status) == status >= 200 /\ status <= 299

\* texts the vision LLM transcribes
OcrTexts == {<<>>, <<"1", ".", " ", "Q">>, <<"o", "c", "r">>}

QuestionObj ==
    <<"{", "\"", "q", "u", "e", "s", "t", "i", "o", "n", "\"", ":", "\"", "Q", "\"", ",",
      "\"", "o", "p", "t", "i", "o", "n", "s", "\"", ":", "[", "\"", "a", "\"", ",",
      "\"", "b", "\"", ",", "\"", "c", "\"", ",", "\"", "d", "\"", "]", ",",
      "\"", "c", "o", "r", "r", "e", "c", "t", "A", "n", "s", "w", "e", "r", "\"", ":",
      "\"", "B", "\"", "}">>

\* a question with three options and the answer letter E
BadQuestionObj ==
    <<"{", "\"", "q", "u", "e", "s", "t", "i", "o", "n", "\"", ":", "\"", "Q", "\"", ",",
      "\"", "o", "p", "t", "i", "o", "n", "s", "\"", ":", "[", "\"", "a", "\"", ",",
      "\"", "b", "\"", ",", "\"", "c", "\"", "]", ",",
      "\"", "c", "o", "r", "r", "e", "c", "t", "A", "n", "s", "w", "e", "r", "\"", ":",
      "\"", "E", "\"", "}">>

RECURSIVE Repeat(_, _, _)
Repeat(x, sep, k) ==
    IF k = 0 THEN <<>> ELSE IF k = 1 THEN x ELSE x \o sep \o Repeat(x, sep, k - 1)

\* the JSON text of an array of k questions
QuestionsJson(k) == <<"[">> \o Repeat(QuestionObj, <<",">>, k) \o <<"]">>

Fenced(s) == FenceJson \o <<"\n">> \o s \o <<"\n">> \o Fence

\* the same with the plain fence, and no line feeds
PlainFenced(s) == Fence \o s \o Fence

\* the JSON text of an array of one string that holds a fence marker
FenceInString == <<"[", "\"", "a", Bq, Bq, Bq, "b", "\"", "]">>

\* texts the structuring model answers with
StructTexts ==
    {QuestionsJson(k) : k \in 0..MaxQuestions}
    \cup {Fenced(QuestionsJson(k)) : k \in 0..1}
    \cup {<<"[">> \o BadQuestionObj \o <<"]">>,
          <<"{", "}">>, QuestionObj, <<"4", "2">>, <<"\"", "Q", "\"">>,
          LitTrue, LitNull, Fenced(<<"{", "}">>),
          <<"N", "o", " ", "q", "u", "e", "s", "t", "i", "o", "n", "s">>,
          <<"[", "1", ",">>, <<>>,
          FenceInString, Fenced(FenceInString), PlainFenced(QuestionsJson(1)),
          Fenced(<<"N", "o">>)}

\* a reply of the LLM gateway to fetch: the fetch rejects, or answers with a
\* status and a body that is a chat completion with a string content
\* ("chat"), a chat completion whose content is null ("nullcontent"), or
\* anything else ("malformed")
ChatReply(net, status, shape, content) ==
    [net |-> net, status |-> status, shape |-> shape, content |-> content]

ChatReplies(texts) ==
    {ChatReply("reject", 0, "malformed", <<>>)}
    \cup {ChatReply("response", st, "malformed", <<>>) : st \in Statuses}
    \cup {ChatReply("response", 200, "nullcontent", <<>>)}
    \cup {ChatReply("response", 200, "chat", t) : t \in texts}

\* the outcomes of supabase.storage.download: {data} or {error}
DownloadResults == {"data", "error"}

\* the outcomes of the upload to the OCR provider: a 2xx answer with a
\* handle, another status, or a rejected fetch / unreadable body
UploadResults == {"ok", "notok", "throw"}

\* an optional value is a sequence of at most one element
None == <<>>
Some(x) == <<x>>

\* the JSON of the OCR provider's answer: text, ocr.text and the items of an
\* array, each optional
OcrData(isArr, text, hasOcr, ocrText, items) ==
    [isArray |-> isArr, text |-> text, hasOcr |-> hasOcr, ocrText |-> ocrText, items |-> items]

OcrShapes ==
    {OcrData(FALSE, Some(<<"t">>), FALSE, None, <<>>),
     OcrData(FALSE, Some(<<"t">>), TRUE, Some(<<"o">>), <<>>),
     OcrData(FALSE, Some(<<>>), TRUE, Some(<<"o">>), <<>>),
     OcrData(FALSE, None, TRUE, Some(<<"o">>), <<>>),
     OcrData(FALSE, None, TRUE, None, <<>>),
     OcrData(FALSE, None, TRUE, Some(<<>>), <<>>),
     OcrData(TRUE, None, FALSE, None, <<None, Some(<<>>)>>),
     OcrData(FALSE, None, FALSE, None, <<>>),
     OcrData(TRUE, None, FALSE, None, <<>>),
     OcrData(TRUE, None, FALSE, None, <<Some(<<"x">>), None, Some(<<"y">>)>>)}

\* the outcomes of the OCR request: as for the upload, with the data of a
\* 2xx answer
OcrResults ==
    {[kind |-> k, data |-> OcrData(FALSE, None, FALSE, None, <<>>)] : k \in {"notok", "throw"}}
    \cup {[kind |-> "ok", data |-> d] : d \in OcrShapes}

(***************************************************************************)
(* One invocation of the handler.  Every field is local to the invocation: *)
(*   pc        where the handler is suspended: "recv" before it runs, the  *)
(*             name of the outbound call it awaits, "done" after it        *)
(*             returned its Response                                       *)
(*   calls     the outbound calls issued so far, in order                  *)
(*   replies   what each awaited call came back with, in order             *)
(*   response  the Response returned, nresp how many were returned         *)
(***************************************************************************)
NoResponse ==
    [status |-> 0, body |-> "none", error |-> "", questions |-> JNull, cors |-> FALSE]

NewInvocation(variant, req) ==
    [variant |-> variant, req |-> req, pc |-> "recv",
     calls |-> <<>>, replies |-> <<>>,
     mimeType |-> "", isPdf |-> FALSE, extractedText |-> <<>>, ocrData |-> <<>>,
     response |-> NoResponse, nresp |-> 0]

\* return new Response(body, {status, headers: {...corsHeaders, ...}})
Respond(h, status, body, error, questions) ==
    [h EXCEPT !.pc = "done",
              !.nresp = @ + 1,
              !.response = [status |-> status, body |-> body, error |-> error,
                            questions |-> questions, cors |-> TRUE]]

\* variant of the error Response whose headers are the content type alone
ErrorResponseNoCors(h, status, error) ==
    [Respond(h, status, "error", error, JNull) EXCEPT !.response.cors = FALSE]

\* a Response whose body is JSON.stringify({ error })
ErrorResponse(h, status, error) == Respond(h, status, "error", error, JNull)

\* variant of the catch-all that lets the error escape the handler: no
\* Response is built
CatchAllRethrown(h, message) == h

\* variant of the catch-all that leaves the status of the Response out
CatchAllDefaultStatus(h, message) == ErrorResponse(h, 200, message)

\* the catch-all of the handler: status 500 with the message of the error
CatchAll(h, message) == ErrorResponse(h, 500, message)

\* issue an outbound call and suspend until it returns
Call(h, op, text) ==
    [h EXCEPT !.pc = op, !.calls = Append(@, [op |-> op, text |-> text])]

\* note what an awaited call came back with
Reply(h, op, result, status, text) ==
    [h EXCEPT !.replies = Append(@, [op |-> op, result |-> result,
                                     status |-> status, text |-> text])]

\* variant of the filePath check: filePath === undefined
FilePathUndefined(body) == ~body.hasPath

\* !filePath
FilePathMissing(body) == ~body.hasPath \/ body.filePath = <<>>

DotPdf == <<".", "p", "d", "f">>
DotJpg == <<".", "j", "p", "g">>
DotJpeg == <<".", "j", "p", "e", "g">>

\* variant of the MIME type that compares the key as it is written
MimeTypeCaseSensitive(filePath) ==
    IF endsWith(filePath, DotPdf) THEN "application/pdf"
    ELSE IF endsWith(filePath, DotJpg) \/ endsWith(filePath, DotJpeg) THEN "image/jpeg"
    ELSE "image/png"

MimeType(filePath) ==
    IF endsWith(toLowerCase(filePath), DotPdf) THEN "application/pdf"
    ELSE IF endsWith(toLowerCase(filePath), DotJpg) \/ endsWith(toLowerCase(filePath), DotJpeg)
         THEN "image/jpeg"
    ELSE "image/png"

IsPdf(filePath) == endsWith(toLowerCase(filePath), DotPdf)

\* from the request to the download: the OPTIONS preflight, req.json(), the
\* filePath check, and the call of supabase.storage.download
HandleRequest(h) ==
    IF h.req.method = "OPTIONS" THEN Respond(h, 200, "null", "", JNull)
    ELSE IF h.req.body.kind = "malformed" THEN CatchAll(h, "SyntaxError")
    ELSE IF h.req.body.kind = "null" THEN CatchAll(h, "TypeError")
    ELSE IF FilePathMissing(h.req.body) THEN ErrorResponse(h, 400, "File path is required")
    ELSE Call(h, "download", h.req.body.filePath)

\* variant of the selection that leaves the document kind out
UseFilestackAnyKind(isPdf, ocrApiKey) == ocrApiKey

\* if (isPdf && ocrApiKey)
UseFilestack(isPdf, ocrApiKey) == isPdf /\ ocrApiKey

\* variant that sends the structuring request twice without awaiting
StartStructuringTwice(h) ==
    Call(Call(h, "structure", h.extractedText), "structure", h.extractedText)

\* the fetch of the structuring stage, with the extracted text in its prompt
StartStructuring(h) == Call(h, "structure", h.extractedText)

\* the OCR stage of the two-stage handler up to its first outbound call
StartOcr(h, env) ==
    IF UseFilestack(h.isPdf, env.OCR_API_KEY)
    THEN Call(h, "fs_upload", <<>>)
    ELSE Call(h, "gemini", <<>>)

\* variant of the download check that never sees the error
DownloadNeverFailed(result) == FALSE

\* if (downloadError)
DownloadFailed(result) == result = "error"

\* variant of the credential check that lets a missing credential pass
LovableKeyNeverMissing(e) == FALSE

\* if (!lovableApiKey)
LovableKeyMissing(e) == ~e.LOVABLE_API_KEY

\* the download has returned: the error check, the MIME type, the check of
\* the LLM credential, and the first provider call
AfterDownload(h, env, result) ==
    LET h0 == Reply(h, "download", IF result = "data" THEN "returned" ELSE "error", 0, <<>>)
        filePath == h.req.body.filePath
    IN  IF DownloadFailed(result) THEN ErrorResponse(h0, 500, "Failed to download file")
        ELSE LET h1 == [h0 EXCEPT !.mimeType = MimeType(filePath)]
             IN  IF LovableKeyMissing(env) THEN CatchAll(h1, "LOVABLE_API_KEY not configured")
                 ELSE IF h.variant = "single-stage" THEN Call(h1, "structure", <<>>)
                 ELSE StartOcr([h1 EXCEPT !.isPdf = IsPdf(filePath)], env)

\* variant of the catch block without the fallback
FilestackCatchNoFallback(h) == StartStructuring(h)

\* catch (error) around processPdfWithFilestack:
\*   isPdf && (extractedText = await extractWithGemini(...))
FilestackCatch(h) ==
    IF h.isPdf THEN Call(h, "gemini", <<>>) ELSE StartStructuring(h)

\* variant that requests the OCR output whatever the upload answered
AfterFilestackUploadUnchecked(h, result) ==
    Call(Reply(h, "fs_upload", IF result = "ok" THEN "returned" ELSE "threw", 200, <<>>),
         "fs_ocr", <<>>)

\* processPdfWithFilestack after the upload returned
AfterFilestackUpload(h, result) ==
    IF result = "ok"
    THEN Call(Reply(h, "fs_upload", "returned", 200, <<>>), "fs_ocr", <<>>)
    ELSE FilestackCatch(Reply(h, "fs_upload", "threw", 0, <<>>))

\* item.text || ''
ItemText(item) == IF item = None THEN <<>> ELSE item[1]

RECURSIVE Join(_, _)
Join(texts, sep) ==
    IF texts = <<>> THEN <<>>
    ELSE IF Len(texts) = 1 THEN texts[1]
    ELSE texts[1] \o sep \o Join(Tail(texts), sep)

\* variant that looks at ocr.text before text
FilestackTextOcrFirst(d) ==
    IF d.hasOcr /\ d.ocrText # None /\ d.ocrText[1] # <<>> THEN d.ocrText[1]
    ELSE IF d.text # None /\ d.text[1] # <<>> THEN d.text[1]
    ELSE IF d.isArray
         THEN Join([k \in 1..Len(d.items) |-> ItemText(d.items[k])], <<"\n", "\n">>)
    ELSE <<>>

\* the text processPdfWithFilestack takes from the OCR answer
FilestackText(d) ==
    IF d.text # None /\ d.text[1] # <<>> THEN d.text[1]
    ELSE IF d.hasOcr /\ d.ocrText # None /\ d.ocrText[1] # <<>> THEN d.ocrText[1]
    ELSE IF d.isArray
         THEN Join([k \in 1..Len(d.items) |-> ItemText(d.items[k])], <<"\n", "\n">>)
    ELSE <<>>

\* variant that takes an empty text of the OCR provider for a failure
AfterFilestackOcrEmptyFails(h, result) ==
    IF result.kind = "ok" /\ FilestackText(result.data) # <<>>
    THEN LET text == FilestackText(result.data)
         IN  StartStructuring([Reply(h, "fs_ocr", "returned", 200, text)
                                  EXCEPT !.extractedText = text,
                                         !.ocrData = <<result.data>>])
    ELSE IF result.kind = "ok"
    THEN FilestackCatch([Reply(h, "fs_ocr", "threw", 200, <<>>)
                            EXCEPT !.ocrData = <<result.data>>])
    ELSE FilestackCatch(Reply(h, "fs_ocr", "threw", 0, <<>>))

\* variant that runs the vision LLM after the OCR provider succeeded too
AfterFilestackOcrThenGemini(h, result) ==
    IF result.kind = "ok"
    THEN LET text == FilestackText(result.data)
         IN  Call([Reply(h, "fs_ocr", "returned", 200, text)
                      EXCEPT !.extractedText = text, !.ocrData = <<result.data>>],
                  "gemini", <<>>)
    ELSE FilestackCatch(Reply(h, "fs_ocr", "threw", 0, <<>>))

\* processPdfWithFilestack after the OCR request returned
AfterFilestackOcr(h, result) ==
    IF result.kind = "ok"
    THEN LET text == FilestackText(result.data)
         IN  StartStructuring([Reply(h, "fs_ocr", "returned", 200, text)
                                  EXCEPT !.extractedText = text,
                                         !.ocrData = <<result.data>>])
    ELSE FilestackCatch(Reply(h, "fs_ocr", "threw", 0, <<>>))

\* variant in which a failure of the vision LLM is swallowed and the
\* handler goes on with an empty text
AfterGeminiSwallowed(h, r) ==
    IF r.net = "reject" \/ ~ResponseOk(r.status) \/ r.shape # "chat"
    THEN StartStructuring(Reply(h, "gemini", "threw", r.status, <<>>))
    ELSE StartStructuring([Reply(h, "gemini", "returned", r.status, r.content)
                              EXCEPT !.extractedText = r.content])

\* extractWithGemini after its fetch returned, and the handler after it: a
\* rejected fetch, a status that is not ok and a body without
\* choices[0].message make extractWithGemini throw; a null content is
\* returned to the handler, whose extractedText.length then throws
AfterGemini(h, r) ==
    IF r.net = "reject"
    THEN CatchAll(Reply(h, "gemini", "threw", 0, <<>>), "fetch failed")
    ELSE IF ~ResponseOk(r.status)
    THEN CatchAll(Reply(h, "gemini", "threw", r.status, <<>>), "Gemini OCR failed")
    ELSE IF r.shape = "malformed"
    THEN CatchAll(Reply(h, "gemini", "threw", r.status, <<>>), "TypeError")
    ELSE IF r.shape = "nullcontent"
    THEN CatchAll(Reply(h, "gemini", "nullcontent", r.status, <<>>), "TypeError")
    ELSE StartStructuring([Reply(h, "gemini", "returned", r.status, r.content)
                              EXCEPT !.extractedText = r.content])

\* variant of the classification that answers 500 for every failure
ProviderErrorAlways500(status) == 500

\* the status and message answered for a structuring call that is not ok
ProviderErrorStatus(status) ==
    IF status = 429 THEN 429 ELSE IF status = 402 THEN 402 ELSE 500

ProviderErrorMessage(status) ==
    IF status = 429 THEN "Rate limit exceeded. Please try again later."
    ELSE IF status = 402 THEN "AI credits depleted. Please add funds to continue."
    ELSE "AI processing failed"

\* variant of the parse failure that is left to the catch-all
ParseFailureRethrown(h) == CatchAll(h, "SyntaxError")

\* catch (parseError) around the fence stripping and JSON.parse
ParseFailure(h) == ErrorResponse(h, 500, "Failed to parse extracted questions")

\* the parsed model output: clean, parse, check that it is an array, answer
AnswerQuestions(h, questionsText) ==
    LET parsed == JSONparse(CleanedText(questionsText))
    IN  IF ~parsed.ok THEN ParseFailure(h)
        ELSE IF ~IsArray(parsed.val) THEN ErrorResponse(h, 500, "Invalid questions format")
        ELSE Respond(h, 200, "questions", "", parsed.val)

\* the handler after the fetch of the structuring call returned; a 2xx
\* answer is noted as "returned" when its content is a string, and by its
\* shape otherwise
AfterStructure(h, r) ==
    IF r.net = "reject"
    THEN CatchAll(Reply(h, "structure", "threw", 0, <<>>), "fetch failed")
    ELSE IF ~ResponseOk(r.status)
    THEN ErrorResponse(Reply(h, "structure", "returned", r.status, <<>>),
                       ProviderErrorStatus(r.status), ProviderErrorMessage(r.status))
    ELSE IF r.shape = "malformed"
    THEN CatchAll(Reply(h, "structure", "malformed", r.status, <<>>), "TypeError")
    ELSE IF r.shape = "nullcontent"
    THEN ParseFailure(Reply(h, "structure", "nullcontent", r.status, <<>>))
    ELSE AnswerQuestions(Reply(h, "structure", "returned", r.status, r.content), r.content)

(***************************************************************************)
(* The chunked base64 encoder of the handler (lines 145-156, and 342-353   *)
(* of the single-stage handler).  A byte and a character of the binary     *)
(* string are both written as the number 0..255; the chunk size, 8192 in   *)
(* the code, is an input of the encoder here.                              *)
(***************************************************************************)
\* const chunkSize = 8192
chunkSize == 8192

\* the longest byte sequence and the largest small chunk size of the model
MaxBytes == 4
MaxChunk == 3

ByteValues == {0, 77, 255}

ByteSeqs == UNION {[1..n -> ByteValues] : n \in 0..MaxBytes}

ChunkSizes == (1..MaxChunk) \cup {chunkSize}

Base64Chars ==
    <<"A", "B", "C", "D", "E", "F", "G", "H", "I", "J", "K", "L", "M",
      "N", "O", "P", "Q", "R", "S", "T", "U", "V", "W", "X", "Y", "Z",
      "a", "b", "c", "d", "e", "f", "g", "h", "i", "j", "k", "l", "m",
      "n", "o", "p", "q", "r", "s", "t", "u", "v", "w", "x", "y", "z",
      "0", "1", "2", "3", "4", "5", "6", "7", "8", "9", "+", "/">>

\* btoa: each group of three characters gives four base64 characters, the
\* last group padded with "="
Btoa(b) ==
    LET n == Len(b)
        At(k) == IF k <= n THEN b[k] ELSE 0
        Group(g) ==
            LET b1 == At(3 * g - 2)
                b2 == At(3 * g - 1)
                b3 == At(3 * g)
            IN  <<Base64Chars[(b1 \div 4) + 1],
                  Base64Chars[((b1 % 4) * 16 + (b2 \div 16)) + 1],
                  IF 3 * g - 1 <= n THEN Base64Chars[((b2 % 16) * 4 + (b3 \div 64)) + 1] ELSE "=",
                  IF 3 * g <= n THEN Base64Chars[(b3 % 64) + 1] ELSE "=">>
    IN  [k \in 1..(4 * ((n + 2) \div 3)) |-> Group(((k - 1) \div 4) + 1)[((k - 1) % 4) + 1]]

\* variant of subarray whose end is one short
SubarrayShort(a, begin, end) ==
    IF begin >= Len(a) \/ end - 1 <= begin THEN <<>>
    ELSE SubSeq(a, begin + 1, IF end - 1 < Len(a) THEN end - 1 ELSE Len(a))

\* uint8Array.subarray(begin, end), with 0-based begin and exclusive end
Subarray(a, begin, end) ==
    IF begin >= Len(a) THEN <<>>
    ELSE SubSeq(a, begin + 1, IF end < Len(a) THEN end ELSE Len(a))

\* String.fromCharCode(...chunk): the characters with the chunk's codes
FromCharCode(chunk) == [k \in 1..Len(chunk) |-> chunk[k] % 65536]

\* the encoder before its loop
NewEncoding(bytes, size) ==
    [uint8Array |-> bytes, chunkSize |-> size, i |-> 0,
     binaryString |-> <<>>, base64 |-> <<>>, pc |-> "loop"]

\* an encoder that does not run
NoEncoding == [NewEncoding(<<>>, chunkSize) EXCEPT !.pc = "off"]

\* one turn of the loop: binaryString += String.fromCharCode(...chunk)
LoopTurn(e) ==
    [e EXCEPT !.binaryString =
                  @ \o FromCharCode(Subarray(e.uint8Array, e.i, e.i + e.chunkSize)),
              !.i = @ + e.chunkSize]

\* const base64 = btoa(binaryString)
LoopExit(e) == [e EXCEPT !.base64 = Btoa(e.binaryString), !.pc = "done"]

(***************************************************************************)
(* The pages of the browser application: Upload (processFile and the file  *)
(* handlers), Exam and Results.  A question is the record the extraction   *)
(* function answered with; an index into questions is 0-based as in the    *)
(* code, and answers is the object of the recorded answers, a function     *)
(* whose domain is the set of its keys.                                    *)
(***************************************************************************)
\* the longest question array the extraction answers with
MaxExamQuestions == 2

\* const options = ['A', 'B', 'C', 'D']
options == <<"A", "B", "C", "D">>

\* the correctAnswer of a question: a letter of options or, as the function
\* validates no question, something else
CorrectAnswers == {"A", "B", "E"}

Question(correctAnswer) ==
    [question |-> "Q", options |-> <<"a", "b", "c", "d">>, correctAnswer |-> correctAnswer]

QuestionArrays == UNION {[1..n -> {Question(c) : c \in CorrectAnswers}] : n \in 0..MaxExamQuestions}

\* const maxSize = 10 * 1024 * 1024
maxSize == 10 * 1024 * 1024

validTypes == {"application/pdf", "image/png", "image/jpeg", "image/jpg"}

Files == [type : {"application/pdf", "image/png", "text/plain"}, size : {maxSize, maxSize + 1}]

\* what supabase.functions.invoke resolves to: {data, error}, data being
\* null, or an object with or without questions
InvokeReply(error, data, hasQuestions, questions) ==
    [error |-> error, data |-> data, hasQuestions |-> hasQuestions, questions |-> questions]

InvokeReplies ==
    {InvokeReply(TRUE, "null", FALSE, <<>>),
     InvokeReply(FALSE, "null", FALSE, <<>>),
     InvokeReply(FALSE, "object", FALSE, <<>>)}
    \cup {InvokeReply(FALSE, "object", TRUE, qs) : qs \in QuestionArrays}

\* the object without keys
NoAnswers == [k \in {} |-> ""]

\* the Upload page as it is mounted
MountUpload ==
    [page |-> "upload", file |-> <<>>, isUploading |-> FALSE, pc |-> "idle", toast |-> "",
     questions |-> <<>>, currentQuestion |-> 0, answers |-> NoAnswers,
     results |-> <<>>, score |-> 0, total |-> 0]

\* no page is shown
NoPage == [MountUpload EXCEPT !.page = "off"]

\* navigate('/exam', { state: { questions } }): the Exam page as it is
\* mounted, questions = location.state?.questions || []
MountExam(questions) ==
    [MountUpload EXCEPT !.page = "exam", !.questions = questions]

\* navigate('/results', { state }): the Results page; the record keeps what
\* the Exam page held when it was left
MountResults(u, results, score, total) ==
    [u EXCEPT !.page = "results", !.results = results, !.score = score, !.total = total]

\* toast({ title, ... })
Toast(u, title) == [u EXCEPT !.toast = title]

\* the title of the toast validateFile shows, "" when it shows none
ValidateFileToast(file) ==
    IF ~(file.type \in validTypes) THEN "Invalid file type"
    ELSE IF file.size > maxSize THEN "File too large"
    ELSE ""

validateFile(file) == ValidateFileToast(file) = ""

handleFile(u, selectedFile) ==
    IF validateFile(selectedFile)
    THEN [u EXCEPT !.file = <<selectedFile>>]
    ELSE Toast(u, ValidateFileToast(selectedFile))

\* processFile up to the upload to the storage
processFile(u) ==
    IF u.file = <<>> THEN u
    ELSE [u EXCEPT !.isUploading = TRUE, !.pc = "upload"]

\* the catch block of processFile
ProcessFileCatch(u) ==
    [Toast(u, "Error processing file") EXCEPT !.isUploading = FALSE, !.pc = "idle"]

\* processFile after the upload to the storage returned
AfterStorageUpload(u, uploadError) ==
    IF uploadError THEN ProcessFileCatch(u) ELSE [u EXCEPT !.pc = "invoke"]

\* variant of the test that lets an empty array through
NoQuestionsIfMissing(reply) == ~reply.hasQuestions

\* !data.questions || data.questions.length === 0
NoQuestions(reply) == ~reply.hasQuestions \/ Len(reply.questions) = 0

\* processFile after supabase.functions.invoke returned
AfterInvoke(u, reply) ==
    IF reply.error THEN ProcessFileCatch(u)
    ELSE IF reply.data = "null" THEN ProcessFileCatch(u)
    ELSE IF NoQuestions(reply)
    THEN [Toast(u, "No questions found") EXCEPT !.isUploading = FALSE, !.pc = "idle"]
    ELSE MountExam(reply.questions)

\* setAnswers({ ...answers, [currentQuestion]: optionIndex })
handleAnswer(u, optionIndex) ==
    [u EXCEPT !.answers = [k \in (DOMAIN u.answers) \cup {u.currentQuestion} |->
                              IF k = u.currentQuestion THEN optionIndex ELSE u.answers[k]]]

\* variant of handleNext without its test
handleNextUnguarded(u) == [u EXCEPT !.currentQuestion = @ + 1]

handleNext(u) ==
    IF u.currentQuestion < Len(u.questions) - 1
    THEN [u EXCEPT !.currentQuestion = @ + 1]
    ELSE u

handlePrevious(u) ==
    IF u.currentQuestion > 0
    THEN [u EXCEPT !.currentQuestion = @ - 1]
    ELSE u

\* onClick={() => setCurrentQuestion(idx)}
JumpTo(u, idx) == [u EXCEPT !.currentQuestion = idx]

\* Object.keys(answers).length
answeredCount(u) == Cardinality(DOMAIN u.answers)

\* variant in which the Submit button is never disabled
SubmitShownAtLast(u) == u.currentQuestion = Len(u.questions) - 1

\* the Submit button is rendered and not disabled
SubmitEnabled(u) ==
    /\ u.currentQuestion = Len(u.questions) - 1
    /\ ~(answeredCount(u) < Len(u.questions))

\* answers[idx] || ''
UserAnswer(u, idx) == IF idx \in DOMAIN u.answers THEN u.answers[idx] ELSE ""

\* variant that compares the answer with the first letter
ResultAgainstFirstLetter(u, idx) ==
    LET q == u.questions[idx + 1]
    IN  [question |-> q.question, options |-> q.options, userAnswer |-> UserAnswer(u, idx),
         correctAnswer |-> q.correctAnswer, isCorrect |-> UserAnswer(u, idx) = options[1]]

\* the result of questions.map for the question at idx
Result(u, idx) ==
    LET q == u.questions[idx + 1]
    IN  [question |-> q.question, options |-> q.options, userAnswer |-> UserAnswer(u, idx),
         correctAnswer |-> q.correctAnswer, isCorrect |-> UserAnswer(u, idx) = q.correctAnswer]

handleSubmit(u) ==
    LET results == [k \in 1..Len(u.questions) |-> Result(u, k - 1)]
        correctCount == Cardinality({k \in 1..Len(results) : results[k].isCorrect})
    IN  MountResults(u, results, correctCount, Len(u.questions))

(***************************************************************************)
(* The state:                                                              *)
(*   inv     the one invocation of the single-invocation machine           *)
(*   env     the process environment                                       *)
(*   enc     the encoder of the encoder machine                            *)
(*   invs    the invocations of the concurrent machine                     *)
(*   inputs  for each of them, what it has been resumed with, in order     *)
(*   ui      the page the browser shows and its component state            *)
(***************************************************************************)
VARIABLES inv, env, enc, invs, inputs, ui

vars == <<inv, env, enc, invs, inputs, ui>>

\* an invocation that does not run
NoInvocation ==
    [NewInvocation("two-stage", [method |-> "OPTIONS",
                                 body |-> [kind |-> "malformed", hasPath |-> FALSE,
                                           filePath |-> <<>>]])
        EXCEPT !.pc = "off"]

(***************************************************************************)
(* The state machine of one invocation under one process environment.      *)
(***************************************************************************)
Init ==
    /\ env \in Envs
    /\ \E variant \in Variants, req \in Requests : inv = NewInvocation(variant, req)
    /\ enc = NoEncoding
    /\ invs = <<>>
    /\ inputs = <<>>
    /\ ui = NoPage

Receive ==
    /\ inv.pc = "recv"
    /\ inv' = HandleRequest(inv)
    /\ UNCHANGED <<env, enc, invs, inputs, ui>>

DownloadReturn ==
    /\ inv.pc = "download"
    /\ \E result \in DownloadResults : inv' = AfterDownload(inv, env, result)
    /\ UNCHANGED <<env, enc, invs, inputs, ui>>

FilestackUploadReturn ==
    /\ inv.pc = "fs_upload"
    /\ \E result \in UploadResults : inv' = AfterFilestackUpload(inv, result)
    /\ UNCHANGED <<env, enc, invs, inputs, ui>>

FilestackOcrReturn ==
    /\ inv.pc = "fs_ocr"
    /\ \E result \in OcrResults : inv' = AfterFilestackOcr(inv, result)
    /\ UNCHANGED <<env, enc, invs, inputs, ui>>

GeminiReturn ==
    /\ inv.pc = "gemini"
    /\ \E r \in ChatReplies(OcrTexts) : inv' = AfterGemini(inv, r)
    /\ UNCHANGED <<env, enc, invs, inputs, ui>>

StructureReturn ==
    /\ inv.pc = "structure"
    /\ \E r \in ChatReplies(StructTexts) : inv' = AfterStructure(inv, r)
    /\ UNCHANGED <<env, enc, invs, inputs, ui>>

Next ==
    \/ Receive
    \/ DownloadReturn
    \/ FilestackUploadReturn
    \/ FilestackOcrReturn
    \/ GeminiReturn
    \/ StructureReturn

Spec == Init /\ [][Next]_vars

\* the same machine when the runtime runs the handler and every outbound
\* call returns: a step that can be taken is taken
FairSpec == Spec /\ WF_vars(Next)

(***************************************************************************)
(* The state machine of the encoder.                                       *)
(***************************************************************************)
EncInit ==
    /\ \E bytes \in ByteSeqs, size \in ChunkSizes : enc = NewEncoding(bytes, size)
    /\ inv = NoInvocation
    /\ env = [LOVABLE_API_KEY |-> FALSE, OCR_API_KEY |-> FALSE]
    /\ invs = <<>>
    /\ inputs = <<>>
    /\ ui = NoPage

\* for (let i = 0; i < uint8Array.length; i += chunkSize) { ... }
EncodeChunk ==
    /\ enc.pc = "loop"
    /\ enc.i < Len(enc.uint8Array)
    /\ enc' = LoopTurn(enc)
    /\ UNCHANGED <<inv, env, invs, inputs, ui>>

EncodeFinish ==
    /\ enc.pc = "loop"
    /\ ~(enc.i < Len(enc.uint8Array))
    /\ enc' = LoopExit(enc)
    /\ UNCHANGED <<inv, env, invs, inputs, ui>>

EncNext == EncodeChunk \/ EncodeFinish

EncSpec == EncInit /\ [][EncNext]_vars

(***************************************************************************)
(* The state machine of several invocations of the two-stage handler that  *)
(* the runtime interleaves at their awaits, under one process environment. *)
(* A step resumes one invocation with what its awaited call came back      *)
(* with and runs it to its next await or to its return.                    *)
(***************************************************************************)
\* how many invocations run at once
NumInvocations == 2

Ids == 1..NumInvocations

ConcRequests ==
    {[method |-> "POST", body |-> [kind |-> "object", hasPath |-> TRUE, filePath |-> k]] :
        k \in {KeyPdf, KeyPng}}

ConcUploadResults == {"ok", "notok"}

ConcOcrResults ==
    {[kind |-> "notok", data |-> OcrData(FALSE, None, FALSE, None, <<>>)],
     [kind |-> "ok", data |-> OcrData(FALSE, Some(<<"t">>), FALSE, None, <<>>)]}

ConcGeminiReplies ==
    {ChatReply("response", 429, "malformed", <<>>),
     ChatReply("response", 200, "chat", <<"o", "c", "r">>)}

ConcStructureReplies ==
    {ChatReply("response", 500, "malformed", <<>>)}
    \cup {ChatReply("response", 200, "chat", QuestionsJson(k)) : k \in 0..1}

\* what an invocation is resumed with: where it was suspended and what came
\* back
Resumption(at, reply) == [at |-> at, reply |-> reply]

\* the handler from one await to the next
StepWith(h, e, in) ==
    CASE in.at = "recv" -> HandleRequest(h)
      [] in.at = "download" -> AfterDownload(h, e, in.reply)
      [] in.at = "fs_upload" -> AfterFilestackUpload(h, in.reply)
      [] in.at = "fs_ocr" -> AfterFilestackOcr(h, in.reply)
      [] in.at = "gemini" -> AfterGemini(h, in.reply)
      [] in.at = "structure" -> AfterStructure(h, in.reply)

\* an invocation running alone: resumed with ins, in order
RECURSIVE Replay(_, _, _)
Replay(h, e, ins) ==
    IF ins = <<>> THEN h ELSE Replay(StepWith(h, e, Head(ins)), e, Tail(ins))

\* variant in which isPdf is one variable of the module, which every
\* invocation assigns
ResumeSharedIsPdf(hs, i) ==
    [hs[i] EXCEPT !.isPdf = hs[(i % NumInvocations) + 1].isPdf]

\* the state an invocation resumes with: every variable of the handler is
\* declared inside the callback passed to serve, one set per invocation
Resume(hs, i) == hs[i]

ConcInit ==
    /\ env \in Envs
    /\ invs \in [Ids -> {NewInvocation("two-stage", req) : req \in ConcRequests}]
    /\ inputs = [i \in Ids |-> <<>>]
    /\ inv = NoInvocation
    /\ enc = NoEncoding
    /\ ui = NoPage

Resumed(i, in) ==
    /\ invs[i].pc = in.at
    /\ invs' = [invs EXCEPT ![i] = StepWith(Resume(invs, i), env, in)]
    /\ inputs' = [inputs EXCEPT ![i] = Append(@, in)]
    /\ UNCHANGED <<inv, env, enc, ui>>

ConcReceive == \E i \in Ids : Resumed(i, Resumption("recv", "request"))

ConcDownloadReturn ==
    \E i \in Ids, result \in DownloadResults : Resumed(i, Resumption("download", result))

ConcFilestackUploadReturn ==
    \E i \in Ids, result \in ConcUploadResults : Resumed(i, Resumption("fs_upload", result))

ConcFilestackOcrReturn ==
    \E i \in Ids, result \in ConcOcrResults : Resumed(i, Resumption("fs_ocr", result))

ConcGeminiReturn ==
    \E i \in Ids, r \in ConcGeminiReplies : Resumed(i, Resumption("gemini", r))

ConcStructureReturn ==
    \E i \in Ids, r \in ConcStructureReplies : Resumed(i, Resumption("structure", r))

ConcNext ==
    \/ ConcReceive
    \/ ConcDownloadReturn
    \/ ConcFilestackUploadReturn
    \/ ConcFilestackOcrReturn
    \/ ConcGeminiReturn
    \/ ConcStructureReturn

ConcSpec == ConcInit /\ [][ConcNext]_vars

(***************************************************************************)
(* The state machine of the browser application, from the Upload page: a   *)
(* step is one event handler, or processFile from one await to the next.   *)
(***************************************************************************)
UiInit ==
    /\ ui = MountUpload
    /\ inv = NoInvocation
    /\ env = [LOVABLE_API_KEY |-> FALSE, OCR_API_KEY |-> FALSE]
    /\ enc = NoEncoding
    /\ invs = <<>>
    /\ inputs = <<>>

UiStep(u) ==
    /\ ui' = u
    /\ UNCHANGED <<inv, env, enc, invs, inputs>>

\* handleDrop, handleFileInput
SelectFile ==
    /\ ui.page = "upload"
    /\ \E selectedFile \in Files : UiStep(handleFile(ui, selectedFile))

\* onClick={() => setFile(null)}
RemoveFile ==
    /\ ui.page = "upload" /\ ui.file # <<>> /\ ~ui.isUploading
    /\ UiStep([ui EXCEPT !.file = <<>>])

\* onClick={processFile}
StartExam ==
    /\ ui.page = "upload" /\ ui.file # <<>> /\ ~ui.isUploading
    /\ UiStep(processFile(ui))

StorageUploadReturn ==
    /\ ui.page = "upload" /\ ui.pc = "upload"
    /\ \E uploadError \in BOOLEAN : UiStep(AfterStorageUpload(ui, uploadError))

InvokeReturn ==
    /\ ui.page = "upload" /\ ui.pc = "invoke"
    /\ \E reply \in InvokeReplies : UiStep(AfterInvoke(ui, reply))

\* onValueChange={handleAnswer}, on a radio item of the current question
ExamAnswer ==
    /\ ui.page = "exam" /\ Len(ui.questions) > 0
    /\ \E idx \in 1..Len(ui.questions[ui.currentQuestion + 1].options) :
           UiStep(handleAnswer(ui, options[idx]))

ExamNext ==
    /\ ui.page = "exam" /\ Len(ui.questions) > 0
    /\ UiStep(handleNext(ui))

ExamPrevious ==
    /\ ui.page = "exam" /\ Len(ui.questions) > 0
    /\ UiStep(handlePrevious(ui))

ExamJump ==
    /\ ui.page = "exam"
    /\ \E idx \in 0..(Len(ui.questions) - 1) : UiStep(JumpTo(ui, idx))

ExamSubmit ==
    /\ ui.page = "exam" /\ Len(ui.questions) > 0
    /\ SubmitEnabled(ui)
    /\ UiStep(handleSubmit(ui))

\* onClick={() => navigate('/')}
ResultsNewExam ==
    /\ ui.page = "results"
    /\ UiStep(MountUpload)

\* onClick={() => navigate(-1)}: back to the Exam page and its questions
ResultsRetake ==
    /\ ui.page = "results"
    /\ UiStep(MountExam(ui.questions))

UiNext ==
    \/ SelectFile
    \/ RemoveFile
    \/ StartExam
    \/ StorageUploadReturn
    \/ InvokeReturn
    \/ ExamAnswer
    \/ ExamNext
    \/ ExamPrevious
    \/ ExamJump
    \/ ExamSubmit
    \/ ResultsNewExam
    \/ ResultsRetake

UiSpec == UiInit /\ [][UiNext]_vars

(***************************************************************************)
(* Properties.                                                             *)
(***************************************************************************)
filePath == inv.req.body.filePath

NumCalls(op) == Cardinality({k \in 1..Len(inv.calls) : inv.calls[k].op = op})

\* the replies of the calls named op that came back with the given result
RepliesOf(op, result) ==
    {k \in 1..Len(inv.replies) : inv.replies[k].op = op /\ inv.replies[k].result = result}

\* processPdfWithFilestack threw at its upload step or at its OCR step
FilestackFailed == RepliesOf("fs_upload", "threw") \cup RepliesOf("fs_ocr", "threw") # {}

BothCredentials == env.LOVABLE_API_KEY /\ env.OCR_API_KEY

\* C1: two-stage handler, paginated document, both credentials: once the
\* specialized OCR failed at its upload or OCR step, the vision LLM has been
\* invoked exactly once, and when it returns a text, the structuring call is
\* issued with exactly that text; no structuring call is issued otherwise.
C1_FallbackInvokedOnce ==
    (inv.variant = "two-stage" /\ IsPdf(filePath) /\ BothCredentials /\ FilestackFailed) =>
        /\ NumCalls("gemini") = 1
        /\ \A k \in RepliesOf("gemini", "returned") :
               /\ NumCalls("structure") = 1
               /\ inv.calls[k + 1] = [op |-> "structure", text |-> inv.replies[k].text]
        /\ NumCalls("structure") = 1 => RepliesOf("gemini", "returned") # {}

C1_Witness ==
    /\ inv.variant = "two-stage" /\ IsPdf(filePath) /\ BothCredentials
    /\ RepliesOf("fs_ocr", "threw") # {}
    /\ \E k \in RepliesOf("gemini", "returned") : inv.replies[k].text = <<"o", "c", "r">>
    /\ inv.pc = "done" /\ inv.response.status = 200

\* C2: two-stage handler: when the specialized OCR returned successfully,
\* the vision LLM is never invoked in that invocation.
C2_NoFallbackOnSuccess ==
    (inv.variant = "two-stage" /\ RepliesOf("fs_ocr", "returned") # {}) => NumCalls("gemini") = 0

C2_Witness ==
    /\ inv.variant = "two-stage" /\ IsPdf(filePath)
    /\ RepliesOf("fs_ocr", "returned") # {}
    /\ inv.pc = "done" /\ inv.response.status = 200

FilestackAttempted == NumCalls("fs_upload") + NumCalls("fs_ocr") > 0

\* the handler has chosen its OCR strategy
OcrStageReached == NumCalls("fs_upload") + NumCalls("gemini") > 0

\* C3: a request goes to the specialized OCR provider only for a .pdf key
\* (any letter case) with the OCR credential configured; at the OCR stage
\* the specialized strategy is attempted exactly in that case, and in every
\* other case the vision LLM is the first provider called and nothing is
\* ever sent to the specialized provider.
C3_SpecializedOnlyForPdfWithKey ==
    /\ FilestackAttempted => (IsPdf(filePath) /\ env.OCR_API_KEY)
    /\ OcrStageReached =>
           /\ FilestackAttempted <=> (IsPdf(filePath) /\ env.OCR_API_KEY)
           /\ ~(IsPdf(filePath) /\ env.OCR_API_KEY) =>
                  /\ inv.calls[2].op = "gemini"
                  /\ NumCalls("gemini") = 1

C3_Witness ==
    /\ filePath = KeyPdfUpper /\ ~env.OCR_API_KEY
    /\ NumCalls("gemini") = 1 /\ ~FilestackAttempted
    /\ inv.pc = "done" /\ inv.response.status = 200

\* C4: in both handlers, a structuring call answered with a status that is
\* not 2xx ends the invocation with 429 for 429, 402 for 402 and 500 for
\* every other status, and a body {error} without questions.
C4_StructuringStatusClassified ==
    \A k \in RepliesOf("structure", "returned") :
        ~(inv.replies[k].status \in 200..299) =>
            /\ inv.pc = "done"
            /\ inv.response.status =
                   (CASE inv.replies[k].status = 429 -> 429
                      [] inv.replies[k].status = 402 -> 402
                      [] OTHER -> 500)
            /\ inv.response.body = "error"
            /\ inv.response.error # ""
            /\ inv.response.questions = JNull

C4_Witness ==
    /\ inv.variant = "single-stage"
    /\ \E k \in RepliesOf("structure", "returned") : inv.replies[k].status = 402
    /\ inv.response.status = 402

\* C5: when the vision-LLM OCR call is answered with 429 (402), the handler
\* responds with status 429 (402).
C5_OcrStatusClassified ==
    \A k \in RepliesOf("gemini", "threw") :
        inv.replies[k].status \in {429, 402} =>
            (inv.pc = "done" /\ inv.response.status = inv.replies[k].status)

\* a call came back with a failure: a thrown error, a download error, an
\* answer without a string content, or a structuring answer that is not ok
FailedReply(k) ==
    \/ inv.replies[k].result \in {"threw", "error", "malformed", "nullcontent"}
    \/ inv.replies[k].op = "structure" /\ ~(inv.replies[k].status \in 200..299)

\* C6: an invocation of the pipeline (any request but the OPTIONS preflight)
\* returns at most one response, exactly one once it is done: {questions}
\* with status 200 and no error, or {error} with another status and no
\* questions; and after a failed call, other than a failed call of the
\* specialized OCR, no further call is issued.
C6_AllOrNothing ==
    inv.req.method # "OPTIONS" =>
        /\ inv.nresp = (IF inv.pc = "done" THEN 1 ELSE 0)
        /\ inv.pc = "done" =>
               \/ /\ inv.response.body = "questions"
                  /\ inv.response.status = 200
                  /\ inv.response.error = ""
                  /\ inv.response.questions.t = "array"
               \/ /\ inv.response.body = "error"
                  /\ inv.response.status # 200
                  /\ inv.response.error # ""
                  /\ inv.response.questions = JNull
        /\ \A k \in 1..Len(inv.replies) :
               /\ inv.replies[k].op = inv.calls[k].op
               /\ (FailedReply(k) /\ inv.replies[k].op \notin {"fs_upload", "fs_ocr"}) =>
                      (Len(inv.calls) = k /\ inv.pc = "done" /\ inv.response.body = "error")

C6_Witness ==
    /\ inv.req.method = "POST"
    /\ RepliesOf("gemini", "threw") # {}
    /\ inv.pc = "done" /\ inv.response.body = "error" /\ inv.response.status = 500
    /\ NumCalls("structure") = 0

\* C7: a request whose JSON body is an object without filePath, or with an
\* empty one, is answered 400 {error: "File path is required"} before any
\* outbound call is issued.
C7_MissingFilePath ==
    (inv.req.method = "POST" /\ inv.req.body.kind = "object"
        /\ (~inv.req.body.hasPath \/ inv.req.body.filePath = <<>>)
        /\ inv.pc # "recv") =>
            /\ inv.pc = "done"
            /\ inv.response.status = 400
            /\ inv.response.body = "error"
            /\ inv.response.error = "File path is required"
            /\ inv.calls = <<>>

C7_Witness ==
    /\ inv.req.method = "POST" /\ inv.req.body.kind = "object"
    /\ inv.req.body.hasPath /\ inv.req.body.filePath = <<>>
    /\ inv.pc = "done" /\ inv.response.status = 400

\* C8: when the download fails, the response is 500
\* {error: "Failed to download file"} and the download is the only outbound
\* call of the invocation.
C8_DownloadFailure ==
    RepliesOf("download", "error") # {} =>
        /\ inv.pc = "done"
        /\ inv.response.status = 500
        /\ inv.response.body = "error"
        /\ inv.response.error = "Failed to download file"
        /\ Len(inv.calls) = 1 /\ inv.calls[1].op = "download"

C8_Witness ==
    /\ RepliesOf("download", "error") # {}
    /\ BothCredentials /\ IsPdf(filePath)
    /\ inv.pc = "done" /\ inv.response.status = 500

\* the structuring calls that came back 2xx with a string as content
StructuringOutputs ==
    {k \in RepliesOf("structure", "returned") : inv.replies[k].status \in 200..299}

EmptyArrayText == <<"[", "]">>

\* C9: when the structuring model's output is the empty array [], the
\* response is the success {questions: []} with status 200.
C9_EmptyArrayIsSuccess ==
    \A k \in StructuringOutputs :
        inv.replies[k].text = EmptyArrayText =>
            /\ inv.pc = "done"
            /\ inv.response.status = 200
            /\ inv.response.body = "questions"
            /\ inv.response.questions = JArray(<<>>)
            /\ inv.response.error = ""

C9_Witness ==
    /\ \E k \in StructuringOutputs : inv.replies[k].text = EmptyArrayText
    /\ inv.variant = "two-stage"
    /\ RepliesOf("gemini", "returned") # {}
    /\ inv.response.status = 200

\* the output is, once its fences are stripped, valid JSON that is not an
\* array
ValidNonArrayJson(text) ==
    LET parsed == JSONparse(CleanedText(text))
    IN  parsed.ok /\ parsed.val.t \in {"object", "number", "string", "boolean", "null"}

\* C10: when the structuring model's output is, after fence stripping,
\* valid JSON whose value is not an array, the one response is an error:
\* status 500 with a body {error}, never a success.
C10_NonArrayIsStructuringError ==
    \A k \in StructuringOutputs :
        ValidNonArrayJson(inv.replies[k].text) =>
            /\ inv.pc = "done"
            /\ inv.nresp = 1
            /\ inv.response.status = 500
            /\ inv.response.body = "error"
            /\ inv.response.error = "Invalid questions format"
            /\ inv.response.questions = JNull

C10_Witness ==
    /\ \E k \in StructuringOutputs : inv.replies[k].text = Fenced(<<"{", "}">>)
    /\ inv.response.status = 500
    /\ inv.response.error = "Invalid questions format"

\* C11: when the text handed to JSON.parse (the structuring model's output
\* with its fence markers stripped) is not JSON, the response is 500
\* {error: "Failed to parse extracted questions"}: the message of the local
\* catch, not the message of an error that reached the catch-all.
C11_ParseFailureCaughtLocally ==
    \A k \in StructuringOutputs :
        ~JSONparse(CleanedText(inv.replies[k].text)).ok =>
            /\ inv.pc = "done"
            /\ inv.nresp = 1
            /\ inv.response.status = 500
            /\ inv.response.body = "error"
            /\ inv.response.error = "Failed to parse extracted questions"
            /\ inv.response.questions = JNull

C11_Witness ==
    /\ \E k \in StructuringOutputs :
           inv.replies[k].text = <<"N", "o", " ", "q", "u", "e", "s", "t", "i", "o", "n", "s">>
    /\ inv.response.status = 500
    /\ inv.response.error = "Failed to parse extracted questions"

\* the fence a text starts with: ```json, ``` or none
LeadingFence(text) ==
    IF MatchAt(text, 1, FenceJson) THEN FenceJson
    ELSE IF MatchAt(text, 1, Fence) THEN Fence
    ELSE <<>>

\* the text is some content between a leading fence and a trailing fence
IsWrapped(text) ==
    /\ LeadingFence(text) # <<>>
    /\ Len(text) >= Len(LeadingFence(text)) + Len(Fence)
    /\ MatchAt(text, Len(text) - Len(Fence) + 1, Fence)

\* the content between the two fences
Inner(text) == SubSeq(text, Len(LeadingFence(text)) + 1, Len(text) - Len(Fence))

\* the response of a handler whose parse result is parsed
ResponseFor(parsed) ==
    IF ~parsed.ok
    THEN [status |-> 500, body |-> "error", error |-> "Failed to parse extracted questions",
          questions |-> JNull, cors |-> TRUE]
    ELSE IF parsed.val.t # "array"
    THEN [status |-> 500, body |-> "error", error |-> "Invalid questions format",
          questions |-> JNull, cors |-> TRUE]
    ELSE [status |-> 200, body |-> "questions", error |-> "",
          questions |-> parsed.val, cors |-> TRUE]

\* C12: for every output that is some content between a leading ```json or
\* ``` fence and a trailing ``` fence, the handler's parsed result, and so
\* its response, is that of parsing the content between the fences alone.
C12_FencedEqualsInner ==
    \A k \in StructuringOutputs :
        IsWrapped(inv.replies[k].text) =>
            inv.response = ResponseFor(JSONparse(Inner(inv.replies[k].text)))

\* the value of the member named key of a JSON object, if it has one
Member(obj, key) ==
    IF obj.t = "object" /\ \E m \in 1..Len(obj.keys) : obj.keys[m] = key
    THEN Some(obj.items[CHOOSE m \in 1..Len(obj.keys) : obj.keys[m] = key])
    ELSE None

KeyOptions == <<"o", "p", "t", "i", "o", "n", "s">>
KeyCorrectAnswer == <<"c", "o", "r", "r", "e", "c", "t", "A", "n", "s", "w", "e", "r">>

\* the invariant of a Question record: four options, an answer letter A..D
ValidQuestion(q) ==
    /\ Member(q, KeyOptions) # None
    /\ Member(q, KeyOptions)[1].t = "array"
    /\ Len(Member(q, KeyOptions)[1].items) = 4
    /\ Member(q, KeyCorrectAnswer) # None
    /\ Member(q, KeyCorrectAnswer)[1].t = "string"
    /\ Member(q, KeyCorrectAnswer)[1].s \in {<<"A">>, <<"B">>, <<"C">>, <<"D">>}

\* C15: every element of the questions array of a success response is a
\* Question with exactly four options and an answer letter among A..D.
C15_SuccessHoldsValidQuestions ==
    (inv.pc = "done" /\ inv.response.body = "questions") =>
        \A m \in 1..Len(inv.response.questions.items) :
            ValidQuestion(inv.response.questions.items[m])

\* the MIME kind of each storage key of the model, written out
ExpectedMimeType(key) ==
    IF key \in {KeyPdf, KeyPdfUpper, KeyOnlyDotPdf} THEN "application/pdf"
    ELSE IF key \in {KeyJpg, KeyJpgMixed, KeyJpeg, KeyJpegLower} THEN "image/jpeg"
    ELSE "image/png"

\* C14: the MIME kind depends on the key's suffix alone, compared without
\* regard to letter case: .pdf gives pdf, .jpg and .jpeg give jpeg, every
\* other key (no extension, .pdf inside the name, .pdfx) gives png; and
\* isPdf of the two-stage handler is true exactly for the pdf kind.
C14_MimeKindFromSuffix ==
    /\ inv.mimeType # "" =>
           /\ inv.mimeType = ExpectedMimeType(filePath)
           /\ MimeType(filePath) \in {"application/pdf", "image/jpeg", "image/png"}
    /\ OcrStageReached => (inv.isPdf <=> ExpectedMimeType(filePath) = "application/pdf")

C14_Witness ==
    /\ filePath = KeyJpeg
    /\ inv.mimeType = "image/jpeg"
    /\ OcrStageReached /\ ~inv.isPdf

\* C16 as claimed: at most three outbound calls in every invocation, never
\* two in flight.
C16_AtMostThreeCalls ==
    /\ Len(inv.calls) <= 3
    /\ Len(inv.calls) - Len(inv.replies) \in {0, 1}

\* C16 as amended: at most five outbound calls in every invocation
\* (download, upload, OCR request, vision-LLM OCR, structuring), at most
\* three when the specialized OCR is not attempted, and never two in
\* flight: every call but the last has returned, and the last one is
\* awaited unless the handler has not started or is done.
C16_AtMostFiveSequentialCalls ==
    /\ Len(inv.calls) <= 5
    /\ ~FilestackAttempted => Len(inv.calls) <= 3
    /\ Len(inv.calls) - Len(inv.replies) = (IF inv.pc \in {"recv", "done"} THEN 0 ELSE 1)
    /\ \A k \in 1..Len(inv.replies) : inv.replies[k].op = inv.calls[k].op
    /\ inv.pc \notin {"recv", "done"} => inv.calls[Len(inv.calls)].op = inv.pc

C16_Witness ==
    /\ Len(inv.calls) = 5
    /\ [k \in 1..5 |-> inv.calls[k].op] =
           <<"download", "fs_upload", "fs_ocr", "gemini", "structure">>
    /\ inv.pc = "done" /\ inv.response.status = 200

\* the requests sent to the OCR provider and to the LLM gateway
ProviderCalls ==
    NumCalls("fs_upload") + NumCalls("fs_ocr") + NumCalls("gemini") + NumCalls("structure")

\* C17: without the LLM-gateway credential no request is ever sent to the
\* OCR provider or to the LLM gateway, whatever the document kind and the
\* OCR credential; once the download has succeeded the invocation ends with
\* 500 {error: "LOVABLE_API_KEY not configured"}, and no invocation of the
\* pipeline ends in a success.
C17_FailFastWithoutLlmKey ==
    ~env.LOVABLE_API_KEY =>
        /\ ProviderCalls = 0
        /\ RepliesOf("download", "returned") # {} =>
               /\ inv.pc = "done"
               /\ inv.response.status = 500
               /\ inv.response.body = "error"
               /\ inv.response.error = "LOVABLE_API_KEY not configured"
        /\ (inv.pc = "done" /\ inv.req.method # "OPTIONS") =>
               (inv.response.body = "error" /\ inv.response.status # 200)

C17_Witness ==
    /\ ~env.LOVABLE_API_KEY /\ env.OCR_API_KEY
    /\ inv.variant = "two-stage" /\ filePath = KeyPdf
    /\ inv.pc = "done" /\ inv.response.error = "LOVABLE_API_KEY not configured"

\* C18: when the vision-LLM OCR fails, called directly or as the fallback,
\* the invocation ends with an error response, and the failed call is the
\* last outbound call: no structuring call, no other OCR attempt.
C18_VisionOcrFailureIsFatal ==
    \A k \in RepliesOf("gemini", "threw") \cup RepliesOf("gemini", "nullcontent") :
        /\ inv.pc = "done"
        /\ inv.response.body = "error"
        /\ inv.response.status = 500
        /\ Len(inv.calls) = k
        /\ NumCalls("structure") = 0
        /\ NumCalls("gemini") = 1

C18_Witness ==
    /\ RepliesOf("fs_upload", "threw") # {}
    /\ RepliesOf("gemini", "threw") # {}
    /\ inv.pc = "done" /\ inv.response.error = "Gemini OCR failed"

\* C13: for every byte sequence (empty, shorter than a chunk, a multiple of
\* the chunk size or not) and every chunk size >= 1, the base64 text the
\* chunked encoder ends with is btoa of the whole sequence's characters.
C13_ChunkedEqualsWhole ==
    enc.pc = "done" =>
        /\ enc.base64 = Btoa(FromCharCode(enc.uint8Array))
        /\ enc.binaryString = enc.uint8Array

\* three turns of the loop, the last on a shorter chunk
C13_Witness ==
    /\ enc.pc = "done"
    /\ Len(enc.uint8Array) = 4 /\ enc.chunkSize = 3
    /\ enc.uint8Array[4] = 77
    /\ enc.base64[7] = "=" /\ enc.base64[8] = "="

\* C20: when the runtime runs the handler and every outbound call returns,
\* every invocation (of either handler) ends, and it returns exactly one
\* response: none before it is done, one and no more once it is.
C20_EventuallyOneResponse ==
    /\ <>(inv.pc = "done")
    /\ [](inv.nresp = (IF inv.pc = "done" THEN 1 ELSE 0))

C20_Witness ==
    /\ inv.variant = "single-stage"
    /\ inv.pc = "done" /\ inv.nresp = 1
    /\ RepliesOf("structure", "threw") # {}

\* the invocation i running alone on its request, resumed with the same
\* upstream replies
Solo(i) == Replay(NewInvocation(invs[i].variant, invs[i].req), env, inputs[i])

\* C19: however the invocations are interleaved at their awaits, each is
\* where it would be running alone with the same request and the same
\* upstream replies: its response (status and body), the calls it issued and
\* every variable of the handler are the same.
C19_InvocationsIndependent ==
    \A i \in Ids :
        /\ invs[i].response = Solo(i).response
        /\ invs[i] = Solo(i)

\* a PDF answered through the fallback, its five resumptions interleaved
\* with the three of an image whose structuring failed
C19_Witness ==
    /\ invs[1].isPdf /\ invs[1].pc = "done" /\ invs[1].response.status = 200
    /\ \E k \in 1..Len(invs[1].calls) : invs[1].calls[k].op = "gemini"
    /\ ~invs[2].isPdf /\ invs[2].pc = "done" /\ invs[2].response.status = 500
    /\ Len(inputs[1]) = 5 /\ Len(inputs[2]) = 3

\* C21: every response of either handler, success or error, carries the
\* cross-origin headers; and an OPTIONS request, whatever its body, is
\* answered with status 200, an empty body and the same headers, with no
\* outbound call.
C21_CorsOnEveryResponse ==
    /\ inv.nresp > 0 => inv.response.cors
    /\ (inv.req.method = "OPTIONS" /\ inv.pc = "done") =>
           /\ inv.response.status = 200
           /\ inv.response.body = "null"
           /\ inv.response.cors
           /\ inv.calls = <<>>

\* the preflight with a body that is not JSON
C21_Witness ==
    /\ inv.req.method = "OPTIONS" /\ inv.req.body.kind = "malformed"
    /\ inv.pc = "done" /\ inv.response.status = 200 /\ inv.response.cors

\* where a text has a fence marker that is neither its first characters nor
\* its last
InteriorFences(text) == MatchesFrom(text, Fence, 1) \ {1, Len(text) - Len(Fence) + 1}

\* C23: a fence marker in the interior of the structuring model's output is
\* still in the text handed to the JSON parser.
C23_InteriorFencesKept ==
    \A k \in StructuringOutputs :
        InteriorFences(inv.replies[k].text) # {} =>
            MatchesFrom(CleanedText(inv.replies[k].text), Fence, 1) # {}

\* a field of the OCR answer is present / is present and not the empty text
Present(field) == field # None
Truthy(field) == field # None /\ field[1] # <<>>

\* the answers of the OCR provider the handler has read
OcrAnswers == {k \in 1..Len(inv.replies) : inv.replies[k].op = "fs_ocr" /\ inv.ocrData # <<>>}

\* C24 as claimed: a bare text field is used whenever it is present.
C24_TextUsedWheneverPresent ==
    \A k \in OcrAnswers :
        Present(inv.ocrData[1].text) => inv.replies[k].text = inv.ocrData[1].text[1]

\* C24: the text taken from the OCR answer is the bare text field when it is
\* present and not empty; otherwise ocr.text when it is present and not
\* empty; otherwise, for an array, the texts of its items (a missing text
\* counting as empty) joined by blank lines; otherwise the empty text.
C24_ShapesInPriorityOrder ==
    \A k \in OcrAnswers :
        LET d == inv.ocrData[1]
            text == inv.replies[k].text
        IN  /\ Truthy(d.text) => text = d.text[1]
            /\ (~Truthy(d.text) /\ d.hasOcr /\ Truthy(d.ocrText)) => text = d.ocrText[1]
            /\ (~Truthy(d.text) /\ ~(d.hasOcr /\ Truthy(d.ocrText)) /\ d.isArray) =>
                   text = Join([m \in 1..Len(d.items) |-> ItemText(d.items[m])], <<"\n", "\n">>)
            /\ (~Truthy(d.text) /\ ~(d.hasOcr /\ Truthy(d.ocrText)) /\ ~d.isArray) =>
                   text = <<>>
            /\ inv.extractedText = text

\* an answer with both text and ocr.text, of which text is taken
C24_Witness ==
    /\ OcrAnswers # {}
    /\ Truthy(inv.ocrData[1].text) /\ Truthy(inv.ocrData[1].ocrText)
    /\ inv.ocrData[1].text[1] # inv.ocrData[1].ocrText[1]
    /\ inv.extractedText = inv.ocrData[1].text[1]

\* C25: the first call is the download and every other call is issued after
\* it returned the blob; the OCR request is issued right after the upload
\* succeeded; and in the two-stage handler the structuring call is issued
\* after an OCR strategy returned a text, with that text.
C25_StagesInOrder ==
    \A k \in 1..Len(inv.calls) :
        /\ k = 1 => inv.calls[k].op = "download"
        /\ k > 1 =>
               /\ inv.calls[k].op # "download"
               /\ inv.replies[1].op = "download" /\ inv.replies[1].result = "returned"
        /\ inv.calls[k].op = "fs_ocr" =>
               /\ inv.replies[k - 1].op = "fs_upload"
               /\ inv.replies[k - 1].result = "returned"
        /\ (inv.calls[k].op = "structure" /\ inv.variant = "two-stage") =>
               /\ inv.replies[k - 1].op \in {"fs_ocr", "gemini"}
               /\ inv.replies[k - 1].result = "returned"
               /\ inv.calls[k].text = inv.replies[k - 1].text

\* download, upload, OCR request and structuring, in this order
C25_Witness ==
    /\ inv.variant = "two-stage"
    /\ Len(inv.calls) = 4
    /\ inv.calls[1].op = "download" /\ inv.calls[2].op = "fs_upload"
    /\ inv.calls[3].op = "fs_ocr" /\ inv.calls[4].op = "structure"

\* the OCR answer has no text, no ocr.text and no item, or empty ones
NoRecognisedText(d) ==
    /\ ~Truthy(d.text)
    /\ ~(d.hasOcr /\ Truthy(d.ocrText))
    /\ d.items = <<>>

NumQuestions == Len(ui.questions)

\* the extraction call returned successfully, with an object
ReturnedData(reply) == ~reply.error /\ reply.data = "object"

\* C22: when the extraction call returns successfully with a missing or an
\* empty questions array, processFile shows the "No questions found" toast,
\* resets isUploading and stays on the Upload page; it navigates to the Exam
\* page only with a non-empty questions array, which the Exam page holds.
C22_ZeroQuestionsIsSoftFailure ==
    /\ ui.page = "exam" => NumQuestions > 0
    /\ ui.toast = "No questions found" => ui.page = "upload"
    /\ (ui.page = "upload" /\ ui.pc = "invoke") =>
           \A reply \in InvokeReplies :
               LET after == AfterInvoke(ui, reply)
               IN  /\ (ReturnedData(reply) /\ (~reply.hasQuestions \/ reply.questions = <<>>)) =>
                          /\ after.toast = "No questions found"
                          /\ ~after.isUploading
                          /\ after.page = "upload"
                   /\ after.page = "exam" =>
                          /\ ReturnedData(reply) /\ reply.hasQuestions
                          /\ reply.questions # <<>>
                          /\ after.questions = reply.questions

\* the prompt is shown, the file is still chosen and can be processed again
C22_Witness ==
    /\ ui.page = "upload" /\ ui.toast = "No questions found"
    /\ ~ui.isUploading /\ ui.pc = "idle" /\ ui.file # <<>>

\* C27: in an exam session of n > 0 questions the index of the current
\* question is within 0..n-1; Next at the last question and Previous at the
\* first leave it unchanged, elsewhere they move it by one; and answering
\* leaves it unchanged.
C27_IndexInRange ==
    (ui.page = "exam" /\ NumQuestions > 0) =>
        /\ ui.currentQuestion \in 0..(NumQuestions - 1)
        /\ handleNext(ui).currentQuestion =
               (IF ui.currentQuestion = NumQuestions - 1 THEN ui.currentQuestion
                ELSE ui.currentQuestion + 1)
        /\ handlePrevious(ui).currentQuestion =
               (IF ui.currentQuestion = 0 THEN 0 ELSE ui.currentQuestion - 1)
        /\ \A idx \in 1..Len(options) :
               handleAnswer(ui, options[idx]).currentQuestion = ui.currentQuestion

\* at the last of two questions, the first one answered
C27_Witness ==
    /\ ui.page = "exam" /\ NumQuestions = 2
    /\ ui.currentQuestion = 1
    /\ DOMAIN ui.answers = {0}

\* a step of the exam session
ExamStep == ui.page = "exam" /\ ui'.page = "exam"

\* C28: the Submit button is there and enabled only at the last question
\* with an answer recorded for every question; a step of the session keeps
\* every recorded answer but that of the current question, and removes
\* none, so the answered count does not decrease; and no result of a
\* submission has an empty user answer.
C28_SubmitOnlyWhenAllAnswered ==
    /\ [](ui.page = "exam" /\ NumQuestions > 0 /\ SubmitEnabled(ui) =>
              /\ ui.currentQuestion = NumQuestions - 1
              /\ DOMAIN ui.answers = 0..(NumQuestions - 1)
              /\ \A k \in DOMAIN ui.answers : ui.answers[k] # "")
    /\ [](ui.page = "results" => \A k \in 1..Len(ui.results) : ui.results[k].userAnswer # "")
    /\ [][ExamStep =>
              /\ DOMAIN ui.answers \subseteq DOMAIN ui'.answers
              /\ \A k \in DOMAIN ui.answers :
                     k # ui.currentQuestion => ui'.answers[k] = ui.answers[k]
              /\ Cardinality(DOMAIN ui'.answers) >= Cardinality(DOMAIN ui.answers)]_vars

\* an exam of two questions was submitted
C28_Witness ==
    /\ ui.page = "results" /\ Len(ui.results) = 2
    /\ ui.results[1].userAnswer = "D" /\ ui.results[2].userAnswer = "A"

\* C29: a submission yields one result per question, in the order of the
\* questions; a result is correct exactly when the recorded answer is the
\* question's correctAnswer; score is the number of correct results and
\* total the number of questions, so 0 <= score <= total.
C29_ScoreCountsCorrectResults ==
    ui.page = "results" =>
        /\ Len(ui.results) = NumQuestions
        /\ \A k \in 1..Len(ui.results) :
               /\ ui.results[k].question = ui.questions[k].question
               /\ ui.results[k].correctAnswer = ui.questions[k].correctAnswer
               /\ (k - 1) \in DOMAIN ui.answers
               /\ ui.results[k].userAnswer = ui.answers[k - 1]
               /\ ui.results[k].isCorrect <=> (ui.answers[k - 1] = ui.questions[k].correctAnswer)
        /\ ui.score = Cardinality({k \in 1..Len(ui.results) : ui.results[k].isCorrect})
        /\ ui.total = NumQuestions
        /\ 0 <= ui.score /\ ui.score <= ui.total

\* one of two answers is right
C29_Witness ==
    /\ ui.page = "results" /\ ui.total = 2 /\ ui.score = 1
    /\ ui.results[1].isCorrect /\ ~ui.results[2].isCorrect
    /\ ui.results[2].correctAnswer = "B" /\ ui.results[2].userAnswer = "C"
====
